---- MODULE Spec2Model ----
(***************************************************************************)
(* typolite: the markdown parse-and-annotate pipeline of                   *)
(* src-tauri/src/parser.rs (MarkdownParser::parse and its helpers), the    *)
(* file service of src-tauri/src/file_service.rs and the table of contents *)
(* of src-tauri/src/export.rs.  Each part has its own variables and its    *)
(* own specification; a specification keeps the other parts at rest.       *)
(*                                                                         *)
(* Strings are sequences of one-character strings.  Markup that the code   *)
(* writes as a literal (a tag, an entity) is kept as one element of the    *)
(* sequence, so the html is the concatenation of the elements.             *)
(* Rust indices are 0-based; the indices of this module are 1-based.       *)
(***************************************************************************)
EXTENDS Integers, Sequences, FiniteSets, TLC

VARIABLES
    pc,                \* position of the parse call: idle, scan, process, render, done, panicked
    markdown,          \* the &str argument of parse
    events,            \* parser.collect()
    idx,               \* position of the for loop over &events
    toc,               \* Vec<TocItem>
    toc_at,            \* history: for each toc entry, the loop position that pushed it
    line_map,          \* Vec<usize>
    current_line,      \* usize
    current_pos,       \* usize
    heading_count,     \* HashMap<String, usize>
    proc_i,            \* i, the position of the while loop of process_events
    processed_events,  \* processed, the events process_events has pushed
    html_output,       \* String
    word_count,        \* usize
    reading_time,      \* u32
    result,            \* the value parse returned
    calls,             \* history: the number of parse calls started
    first,             \* history: a completed call kept for comparison with later calls
    files,             \* the disk: the content of every path, NoFile when there is none
    write_pc,          \* position of the write_file call: idle, write, writing, rename, ok, err
    path,              \* the path argument of write_file
    content,           \* the content argument of write_file
    temp_path,         \* path.with_extension("tmp")
    written,           \* the number of characters tokio::fs::write has written
    previous,          \* history: what the disk held at path when write_file was called
    read_path,         \* the path argument of the latest read_file call
    read_result,       \* the value the latest read_file call returned
    export_pc,         \* position of the generate_toc_from_html call: called, returned
    export_html,       \* the html argument of generate_toc_from_html
    headings,          \* history: the titles of the heading elements html was made of
    toc_html,          \* the value generate_toc_from_html returned
    clock,             \* the time, in milliseconds since watch_file spawned its task
    loop_pc,           \* position of the debounce loop: top, recv, stopped
    now,               \* now, the Instant::now() of the loop iteration
    debounce_map,      \* HashMap<PathBuf, Instant>
    rx,                \* the events sent on the channel and not yet received
    closed,            \* the sender of the channel has been dropped
    notifications,     \* history: the number of events sent on the channel
    notified,          \* history: for each path, when its latest event was sent
    received,          \* history: for each path, when the loop received its latest event
    burst_callbacks,   \* history: for each path, the callbacks since its burst began
    callbacks,         \* history: for each path, the callbacks made, with their times
    math_pc,           \* position of the process_math call: called, returned
    math_text,         \* the text argument of process_math
    math_result,       \* the value process_math returned
    anchor_calls,      \* the number of create_anchor calls made on the registry
    anchor_title,      \* the title argument of the latest create_anchor call
    anchor_registry,   \* the heading_count argument: the registry the calls share
    anchor_result,     \* the anchor the latest create_anchor call returned
    anchor_seen,       \* history: for each title, the number of calls made with it
    \* two write_file calls running concurrently (file_service.rs 76-95)
    dir_entries,       \* the directory: for each path, its file (0: no such file)
    file_data,         \* the content of each file of the disk
    writers,           \* each call's position, arguments, temp_path and open file
    \* the commands watch_file and unwatch_file (commands.rs 173-223)
    watchers,          \* FileService.watchers: path -> watcher
    state_watchers,    \* AppState.watchers: path -> true
    command,           \* the latest command and its path
    command_result     \* what FileService returned to the latest command

parser_vars == <<pc, markdown, events, idx, toc, toc_at, line_map, current_line,
                 current_pos, heading_count, proc_i, processed_events, html_output,
                 word_count, reading_time, result, calls, first>>

file_vars == <<files, write_pc, path, content, temp_path, written, previous, read_path,
               read_result>>

export_vars == <<export_pc, export_html, headings, toc_html>>

watch_vars == <<clock, loop_pc, now, debounce_map, rx, closed, notifications, notified,
                received, burst_callbacks, callbacks>>

math_vars == <<math_pc, math_text, math_result>>

anchor_vars == <<anchor_calls, anchor_title, anchor_registry, anchor_result, anchor_seen>>

\* the variables no step of parse changes
writers_vars == <<dir_entries, file_data, writers>>

registry_vars == <<watchers, state_watchers, command, command_result>>

outside_parser == <<file_vars, export_vars, watch_vars, math_vars, anchor_vars, writers_vars,
                    registry_vars>>

vars == <<parser_vars, file_vars, export_vars, watch_vars, math_vars, anchor_vars,
          writers_vars, registry_vars>>

(***************************************************************************)
(* Bounds of the model.                                                    *)
(***************************************************************************)
MaxBlocks == 3
MaxRepeatBlocks == 1
MaxCalls == 3
MaxContentLen == 2
MaxElements == 3
MaxClock == 600
MaxNotifications == 3
TickMillis == 25
MaxTextLen == 3
MaxTitleLen == 1
MaxAnchorCalls == 3

(***************************************************************************)
(* Characters.                                                             *)
(***************************************************************************)
UpperCase == <<"A", "B", "C", "D", "E", "F", "G", "H", "I", "J", "K", "L", "M",
               "N", "O", "P", "Q", "R", "S", "T", "U", "V", "W", "X", "Y", "Z">>
LowerCase == <<"a", "b", "c", "d", "e", "f", "g", "h", "i", "j", "k", "l", "m",
               "n", "o", "p", "q", "r", "s", "t", "u", "v", "w", "x", "y", "z">>
DigitChars == <<"0", "1", "2", "3", "4", "5", "6", "7", "8", "9">>

Range(s) == {s[i] : i \in DOMAIN s}

\* char::to_lowercase, on the characters of the model ("É", "é": a non-ASCII letter)
to_lowercase(c) ==
    IF c \in Range(UpperCase)
    THEN LowerCase[CHOOSE i \in DOMAIN UpperCase : UpperCase[i] = c]
    ELSE IF c = "É" THEN "é" ELSE c

\* char::is_alphanumeric: Unicode letters and digits, not only ASCII ones
is_alphanumeric(c) ==
    c \in Range(UpperCase) \cup Range(LowerCase) \cup Range(DigitChars) \cup {"É", "é"}

\* char::is_whitespace
is_whitespace(c) == c \in {" ", "\n", "\t", "\r"}

\* the UTF-8 length of a character
len_utf8(c) == IF c \in {"É", "é"} THEN 2 ELSE 1

str_len_Chars(s) == Len(s)

\* str::len: the length in bytes, the sum of the UTF-8 lengths of the characters
str_len(s) ==
    LET n(w) == Cardinality({i \in DOMAIN s : len_utf8(s[i]) = w})
    IN n(1) + 2 * n(2) + 3 * n(3) + 4 * n(4)

\* the decimal digits of a number, as Display writes a usize
RECURSIVE Decimal(_)
Decimal(n) ==
    IF n < 10 THEN <<DigitChars[n + 1]>>
    ELSE Decimal(n \div 10) \o <<DigitChars[(n % 10) + 1]>>

RECURSIVE Flatten(_)
Flatten(ss) == IF ss = <<>> THEN <<>> ELSE Head(ss) \o Flatten(Tail(ss))

(***************************************************************************)
(* Events of pulldown_cmark.                                               *)
(***************************************************************************)
NoTag == [kind |-> "None", level |-> 0, lang |-> <<>>]
Heading(level) == [kind |-> "Heading", level |-> level, lang |-> <<>>]
FencedCodeBlock(lang) == [kind |-> "FencedCodeBlock", level |-> 0, lang |-> lang]
Paragraph == [kind |-> "Paragraph", level |-> 0, lang |-> <<>>]
Strong == [kind |-> "Strong", level |-> 0, lang |-> <<>>]

Start(tag) == [type |-> "Start", tag |-> tag, text |-> <<>>]
End(tag) == [type |-> "End", tag |-> tag, text |-> <<>>]
Text(s) == [type |-> "Text", tag |-> NoTag, text |-> s]
Html(s) == [type |-> "Html", tag |-> NoTag, text |-> s]
SoftBreak == [type |-> "SoftBreak", tag |-> NoTag, text |-> <<>>]
HardBreak == [type |-> "HardBreak", tag |-> NoTag, text |-> <<>>]

IsHeadingStart(e) == e.type = "Start" /\ e.tag.kind = "Heading"
IsFencedCodeStart(e) == e.type = "Start" /\ e.tag.kind = "FencedCodeBlock"
IsCodeBlockEnd(e) == e.type = "End" /\ e.tag.kind = "FencedCodeBlock"
IsText(e) == e.type = "Text"
IsBreak(e) == e.type \in {"SoftBreak", "HardBreak"}

(***************************************************************************)
(* Documents: a markdown text with the events Parser::new_ext yields for   *)
(* it.  A document is a sequence of blocks separated by blank lines.       *)
(***************************************************************************)
\* the headings of the documents: a level and a title
Headings == {<<1, <<"N">>>>, <<2, <<"N">>>>, <<1, <<"n", " ", "2">>>>}
Lang == <<"r", "s">>
Fence == <<"~", "~", "~">>

Hashes(level) == [i \in 1..level |-> "#"]

\* "## title": a heading whose start event is followed by its text
HeadingBlock(level, title) ==
    [src |-> Hashes(level) \o <<" ">> \o title,
     events |-> <<Start(Heading(level)), Text(title), End(Heading(level))>>]

\* "##": a heading with no text
EmptyHeadingBlock(level) ==
    [src |-> Hashes(level),
     events |-> <<Start(Heading(level)), End(Heading(level))>>]

\* a paragraph of three lines, the second ending in two spaces: a soft break
\* and a hard break between three text runs
BreakBlock ==
    [src |-> <<"$", "\n", "$", "é", ">", "$", " ", " ", "\n", "$", "$">>,
     events |-> <<Start(Paragraph), Text(<<"$">>), SoftBreak, Text(<<"$", "é", ">", "$">>),
                  HardBreak, Text(<<"$", "$">>), End(Paragraph)>>]

\* a fenced code block of n lines: one text event per line
CodeBlock(n) ==
    [src |-> Fence \o Lang \o <<"\n">> \o Flatten([i \in 1..n |-> <<"<", "\n">>]) \o Fence,
     events |-> <<Start(FencedCodeBlock(Lang))>> \o [i \in 1..n |-> Text(<<"<", "\n">>)]
                \o <<End(FencedCodeBlock(Lang))>>]

Blocks ==
    {HeadingBlock(h[1], h[2]) : h \in Headings}
    \cup {EmptyHeadingBlock(1), BreakBlock}
    \cup {CodeBlock(n) : n \in 0..2}

RECURSIVE JoinBlocks(_)
JoinBlocks(bs) ==
    IF bs = <<>> THEN [markdown |-> <<>>, events |-> <<>>]
    ELSE IF Len(bs) = 1 THEN [markdown |-> bs[1].src, events |-> bs[1].events]
    ELSE LET rest == JoinBlocks(Tail(bs))
         IN [markdown |-> bs[1].src \o <<"\n", "\n">> \o rest.markdown,
             events |-> bs[1].events \o rest.events]

BlockDocuments(n) == {JoinBlocks(bs) : bs \in UNION {[1..k -> Blocks] : k \in 0..n}}

\* the document of tests::test_basic_parsing
HelloWorldDocument ==
    [markdown |-> <<"#", " ", "H", "e", "l", "l", "o", " ", "W", "o", "r", "l", "d", "\n", "\n", "T", "h", "i", "s", " ", "i", "s", " ", "a", " ", "*", "*", "t", "e", "s", "t", "*", "*", " ", "d", "o", "c", "u", "m", "e", "n", "t", ".">>,
     events |-> <<Start(Heading(1)), Text(<<"H", "e", "l", "l", "o", " ", "W", "o", "r", "l", "d">>),
                  End(Heading(1)), Start(Paragraph),
                  Text(<<"T", "h", "i", "s", " ", "i", "s", " ", "a", " ">>),
                  Start(Strong), Text(<<"t", "e", "s", "t">>), End(Strong),
                  Text(<<" ", "d", "o", "c", "u", "m", "e", "n", "t", ".">>),
                  End(Paragraph)>>]

\* a paragraph of n one-letter words
LongWordCounts == {300, 400}
LongDocument(n) ==
    LET s == [i \in 1..(2 * n - 1) |-> IF i % 2 = 1 THEN "x" ELSE " "]
    IN [markdown |-> s, events |-> <<Start(Paragraph), Text(s), End(Paragraph)>>]

\* two paragraphs with a character the html escapes, the second with a '$'
EscapeDocument ==
    LET t == <<"1", " ", ">", " ", "0">>
    IN [markdown |-> t \o <<"\n", "\n">> \o t \o <<" ", "$">>,
        events |-> <<Start(Paragraph), Text(t), End(Paragraph),
                     Start(Paragraph), Text(t \o <<" ", "$">>), End(Paragraph)>>]

Documents ==
    BlockDocuments(MaxBlocks) \cup {HelloWorldDocument, EscapeDocument}
    \cup {LongDocument(n) : n \in LongWordCounts}

RepeatDocuments == BlockDocuments(MaxRepeatBlocks)

(***************************************************************************)
(* MarkdownParser::create_anchor                                           *)
(***************************************************************************)
EmptyRegistry == [b \in {} |-> 0]

RECURSIVE trim_start_matches(_, _)
trim_start_matches(s, c) ==
    IF s # <<>> /\ Head(s) = c THEN trim_start_matches(Tail(s), c) ELSE s

RECURSIVE trim_end_matches(_, _)
trim_end_matches(s, c) ==
    IF s # <<>> /\ s[Len(s)] = c THEN trim_end_matches(SubSeq(s, 1, Len(s) - 1), c) ELSE s

trim_matches(s, c) == trim_end_matches(trim_start_matches(s, c), c)

base_anchor(title) ==
    trim_matches([i \in 1..Len(title) |->
                     LET c == to_lowercase(title[i])
                     IN IF is_alphanumeric(c) THEN c ELSE "-"], "-")

create_anchor_SuffixFromOne(title, registry) ==
    LET base == base_anchor(title)
        count == IF base \in DOMAIN registry THEN registry[base] + 1 ELSE 1
    IN [anchor |-> IF count = 1 THEN base ELSE base \o <<"-">> \o Decimal(count - 1),
        heading_count |-> IF base \in DOMAIN registry
                          THEN [registry EXCEPT ![base] = count]
                          ELSE registry @@ (base :> count)]

\* the anchor returned and the registry left behind
create_anchor(title, registry) ==
    LET base == base_anchor(title)
        count == IF base \in DOMAIN registry THEN registry[base] + 1 ELSE 1
    IN [anchor |-> IF count = 1 THEN base ELSE base \o <<"-">> \o Decimal(count),
        heading_count |-> IF base \in DOMAIN registry
                          THEN [registry EXCEPT ![base] = count]
                          ELSE registry @@ (base :> count)]

(***************************************************************************)
(* html_escape::encode_text, highlight_code, process_math                  *)
(***************************************************************************)
\* the entity an escaped character is written as
EntityOf(c) ==
    CASE c = "&" -> <<"&", "a", "m", "p", ";">>
      [] c = "<" -> <<"&", "l", "t", ";">>
      [] c = ">" -> <<"&", "g", "t", ";">>
      [] c = "\"" -> <<"&", "q", "u", "o", "t", ";">>
      [] OTHER -> <<c>>

\* every character of `escaped` is replaced by its entity, the others are copied
\* (a text with none of them is returned as it is)
escape_chars(s, escaped) ==
    IF \A i \in DOMAIN s : s[i] \notin escaped THEN s
    ELSE Flatten([i \in 1..Len(s) |-> IF s[i] \in escaped THEN EntityOf(s[i]) ELSE <<s[i]>>])

encode_text_Raw(s) == s

\* html_escape::encode_text: '&', '<' and '>' are escaped
encode_text(s) == escape_chars(s, {"&", "<", ">"})

highlight_code(code, lang) ==
    <<"<pre class=\"language-">> \o lang \o <<"\"><code class=\"language-">> \o lang
    \o <<"\">">> \o encode_text(code) \o <<"</code></pre>">>

starts_with(s, c) == s # <<>> /\ s[1] = c
ends_with(s, c) == s # <<>> /\ s[Len(s)] = c
contains(s, c) == \E i \in DOMAIN s : s[i] = c

\* the byte offset at which character i of s starts
byte_offset(s, i) == str_len(SubSeq(s, 1, i - 1))
is_char_boundary(s, b) == \E i \in 1..(Len(s) + 1) : byte_offset(s, i) = b

\* &s[lo..hi]: aborts unless lo <= hi <= s.len() and both are character boundaries
byte_slice(s, lo, hi) ==
    IF lo <= hi /\ hi <= str_len(s) /\ is_char_boundary(s, lo) /\ is_char_boundary(s, hi)
    THEN [panic |-> FALSE,
          out |-> SubSeq(s, CHOOSE i \in 1..(Len(s) + 1) : byte_offset(s, i) = lo,
                            (CHOOSE i \in 1..(Len(s) + 1) : byte_offset(s, i) = hi) - 1)]
    ELSE [panic |-> TRUE, out |-> <<>>]

process_math_NoLengthCheck(text) ==
    IF starts_with(text, "$") /\ ends_with(text, "$")
    THEN LET math_content == byte_slice(text, 1, str_len(text) - 1)
         IN IF math_content.panic THEN math_content
            ELSE [panic |-> FALSE,
                  out |-> <<"<span class=\"katex-inline\" data-math=\"">>
                          \o encode_text(math_content.out) \o <<"\">", "$">>
                          \o encode_text(math_content.out) \o <<"$", "</span>">>]
    ELSE [panic |-> FALSE, out |-> encode_text(text)]

process_math_StartOnly(text) ==
    IF starts_with(text, "$") /\ str_len(text) > 2
    THEN LET math_content == byte_slice(text, 1, str_len(text) - 1)
         IN IF math_content.panic THEN math_content
            ELSE [panic |-> FALSE,
                  out |-> <<"<span class=\"katex-inline\" data-math=\"">>
                          \o encode_text(math_content.out) \o <<"\">", "$">>
                          \o encode_text(math_content.out) \o <<"$", "</span>">>]
    ELSE [panic |-> FALSE, out |-> encode_text(text)]

process_math(text) ==
    IF starts_with(text, "$") /\ ends_with(text, "$") /\ str_len(text) > 2
    THEN LET math_content == byte_slice(text, 1, str_len(text) - 1)
         IN IF math_content.panic THEN math_content
            ELSE [panic |-> FALSE,
                  out |-> <<"<span class=\"katex-inline\" data-math=\"">>
                          \o encode_text(math_content.out) \o <<"\">", "$">>
                          \o encode_text(math_content.out) \o <<"$", "</span>">>]
    ELSE [panic |-> FALSE, out |-> encode_text(text)]

(***************************************************************************)
(* MarkdownParser::process_events                                          *)
(***************************************************************************)
\* Display of pulldown_cmark::HeadingLevel
HeadingLevelDisplay(level) == <<"h">> \o Decimal(level)

\* one iteration of the while loop at position i: the event pushed and the
\* position of the next iteration; aborts when process_math does
process_step(evs, i) ==
    LET event == evs[i]
        next_is_text == i + 1 <= Len(evs) /\ IsText(evs[i + 1])
    IN IF IsFencedCodeStart(event) /\ next_is_text
       THEN LET highlighted == highlight_code(evs[i + 1].text, event.tag.lang)
                j == i + 2
            IN [panic |-> FALSE, push |-> Html(highlighted),
                i |-> IF j <= Len(evs) /\ IsCodeBlockEnd(evs[j]) THEN j + 1 ELSE j]
       ELSE IF IsText(event) /\ contains(event.text, "$")
       THEN LET processed_text == process_math(event.text)
            IN [panic |-> processed_text.panic, push |-> Html(processed_text.out),
                i |-> i + 1]
       ELSE IF IsHeadingStart(event) /\ next_is_text
       THEN LET anchor == create_anchor(evs[i + 1].text, EmptyRegistry).anchor
                html == <<"<h">> \o HeadingLevelDisplay(event.tag.level)
                        \o <<" id=\"">> \o anchor \o <<"\">">>
            IN [panic |-> FALSE, push |-> Html(html), i |-> i + 1]
       ELSE [panic |-> FALSE, push |-> event, i |-> i + 1]

(***************************************************************************)
(* pulldown_cmark::html::push_html                                         *)
(***************************************************************************)
\* pulldown_cmark::escape::escape_html: '&', '<', '>' and '"' are escaped
escape_html(s) == escape_chars(s, {"&", "<", ">", "\""})

TagName(tag) ==
    CASE tag.kind = "Heading" -> HeadingLevelDisplay(tag.level)
      [] tag.kind = "Paragraph" -> <<"p">>
      [] tag.kind = "Strong" -> <<"strong">>
      [] OTHER -> <<>>

render_event(e) ==
    CASE e.type = "Html" -> e.text
      [] e.type = "Text" -> escape_html(e.text)
      [] e.type = "SoftBreak" -> <<"\n">>
      [] e.type = "HardBreak" -> <<"<br />\n">>
      [] e.type = "Start" /\ e.tag.kind = "FencedCodeBlock" ->
             <<"<pre><code class=\"language-">> \o e.tag.lang \o <<"\">">>
      [] e.type = "End" /\ e.tag.kind = "FencedCodeBlock" -> <<"</code></pre>\n">>
      [] e.type = "Start" -> <<"<">> \o TagName(e.tag) \o <<">">>
      [] e.type = "End" -> <<"</">> \o TagName(e.tag) \o <<">">>

RECURSIVE push_html(_)
push_html(evs) == IF evs = <<>> THEN <<>> ELSE render_event(Head(evs)) \o push_html(Tail(evs))

(***************************************************************************)
(* Reading statistics                                                      *)
(***************************************************************************)
WordsPerMinute == 200

count_words_SplitSpace(text) == Cardinality({i \in DOMAIN text : text[i] = " "}) + 1

\* str::split_whitespace().count(): one item for every character that is not
\* whitespace and is the first character or follows whitespace
count_words(text) ==
    Cardinality({i \in DOMAIN text :
                    /\ ~is_whitespace(text[i])
                    /\ (i = 1 \/ is_whitespace(text[i - 1]))})

Max(a, b) == IF a >= b THEN a ELSE b

reading_time_Rounded(wc) == Max((wc + WordsPerMinute \div 2) \div WordsPerMinute, 1)

\* (word_count / 200).max(1) as u32
reading_time_of(wc) == Max(wc \div WordsPerMinute, 1)

(***************************************************************************)
(* The parts at rest: the state of a part that a specification of another  *)
(* part does not exercise.                                                 *)
(***************************************************************************)
NoFile == [exists |-> FALSE]
NoPath == [stem |-> "", extension |-> ""]
NoRead == [status |-> "None", content |-> <<>>]

\* an empty disk and no write_file or read_file call
FileAtRest ==
    /\ files = [p \in {} |-> NoFile]
    /\ write_pc = "idle"
    /\ path = NoPath
    /\ content = <<>>
    /\ temp_path = NoPath
    /\ written = 0
    /\ previous = NoFile
    /\ read_path = NoPath
    /\ read_result = NoRead

NoToc == [status |-> "None", out |-> <<>>]

\* no generate_toc_from_html call
ExportAtRest ==
    /\ export_pc = "returned"
    /\ export_html = <<>>
    /\ headings = {}
    /\ toc_html = NoToc

NoMap == [p \in {} |-> 0]

\* watch_file has not been called: no task, no channel
WatchAtRest ==
    /\ clock = 0
    /\ loop_pc = "stopped"
    /\ now = 0
    /\ debounce_map = NoMap
    /\ rx = <<>>
    /\ closed = TRUE
    /\ notifications = 0
    /\ notified = NoMap
    /\ received = NoMap
    /\ burst_callbacks = NoMap
    /\ callbacks = NoMap

NoString == [panic |-> FALSE, out |-> <<>>]

\* no process_math call
MathAtRest ==
    /\ math_pc = "returned"
    /\ math_text = <<>>
    /\ math_result = NoString

\* no create_anchor call, an empty registry
AnchorAtRest ==
    /\ anchor_calls = 0
    /\ anchor_title = <<>>
    /\ anchor_registry = [b \in {} |-> 0]
    /\ anchor_result = <<>>
    /\ anchor_seen = [t \in {} |-> 0]


Writers == {1, 2}

NoWriter == [pc |-> "idle", path |-> NoPath, content |-> <<>>, temp_path |-> NoPath,
             file |-> 0, offset |-> 0]

WritersAtRest ==
    /\ dir_entries = [p \in {} |-> 0]
    /\ file_data = <<>>
    /\ writers = [w \in Writers |-> NoWriter]

NoCommand == [name |-> "none", path |-> NoPath]

\* AppState::default(): both registries are empty
RegistryAtRest ==
    /\ watchers = [p \in {} |-> [watching |-> FALSE]]
    /\ state_watchers = [p \in {} |-> TRUE]
    /\ command = NoCommand
    /\ command_result = "none"

(***************************************************************************)
(* MarkdownParser::parse                                                   *)
(***************************************************************************)
NoResult == [status |-> "None", html |-> <<>>, line_map |-> <<>>, toc |-> <<>>,
             word_count |-> 0, reading_time |-> 0]
NoFirst == [set |-> FALSE, markdown |-> <<>>, events |-> <<>>, result |-> NoResult]

TocItem(level, title, anchor, line) ==
    [level |-> level, title |-> title, anchor |-> anchor, line |-> line]

ParsedDocument(html, lm, t, wc, rt) ==
    [status |-> "Ok", html |-> html, line_map |-> lm, toc |-> t,
     word_count |-> wc, reading_time |-> rt]

\* the state of a MarkdownParser no parse call has been made on
ParserInit ==
    /\ pc = "idle"
    /\ markdown = <<>>
    /\ events = <<>>
    /\ idx = 1
    /\ toc = <<>>
    /\ toc_at = <<>>
    /\ line_map = <<>>
    /\ current_line = 1
    /\ current_pos = 0
    /\ heading_count = EmptyRegistry
    /\ proc_i = 1
    /\ processed_events = <<>>
    /\ html_output = <<>>
    /\ word_count = 0
    /\ reading_time = 0
    /\ result = NoResult
    /\ calls = 0
    /\ first = NoFirst

Init == ParserInit /\ RegistryAtRest /\ WritersAtRest /\ FileAtRest /\ ExportAtRest /\ WatchAtRest /\ MathAtRest /\ AnchorAtRest

\* the entry of parse: the locals are created and the events collected
ParseEntry(doc, registry) ==
    /\ pc \in {"idle", "done"}
    /\ pc' = "scan"
    /\ markdown' = doc.markdown
    /\ events' = doc.events
    /\ html_output' = <<>>
    /\ line_map' = <<>>
    /\ toc' = <<>>
    /\ toc_at' = <<>>
    /\ current_line' = 1
    /\ current_pos' = 0
    /\ heading_count' = registry
    /\ idx' = 1
    /\ proc_i' = 1
    /\ processed_events' = <<>>
    /\ word_count' = 0
    /\ reading_time' = 0
    /\ result' = NoResult
    /\ calls' = calls + 1
    /\ UNCHANGED <<first, outside_parser>>

Call_StaleRegistry(doc) == ParseEntry(doc, heading_count)

Call(doc) == ParseEntry(doc, EmptyRegistry)

\* Iterator::position: the first position holding an equal event, 0 for None
position(evs, e) ==
    IF \E i \in DOMAIN evs : evs[i] = e
    THEN CHOOSE i \in DOMAIN evs : evs[i] = e /\ \A j \in 1..(i - 1) : evs[j] # e
    ELSE 0

\* events.get(position + 1): the place of the event the title is read from, the
\* one after the first event equal to `event`; aborts when position is None
title_lookup(evs, event) ==
    LET found == position(evs, event)
    IN [panic |-> found = 0, at |-> found + 1]

line_after_SoftBreakOnly(event, line) ==
    IF event.type = "SoftBreak" THEN line + 1 ELSE line

\* current_line after an event: SoftBreak and HardBreak count a line
line_after(event, line) == IF IsBreak(event) THEN line + 1 ELSE line

\* one iteration of the for loop over &events
ScanEvent ==
    /\ pc = "scan"
    /\ idx <= Len(events)
    /\ LET event == events[idx]
           lookup == title_lookup(events, event)
           has_title == lookup.at <= Len(events) /\ IsText(events[lookup.at])
           title == events[lookup.at].text
           made == create_anchor(title, heading_count)
       IN IF IsHeadingStart(event) /\ lookup.panic
          THEN /\ pc' = "panicked"
               /\ UNCHANGED <<idx, toc, toc_at, heading_count, current_line, line_map,
                              current_pos>>
          ELSE /\ pc' = "scan"
               /\ idx' = idx + 1
               /\ IF IsHeadingStart(event) /\ has_title
                  THEN /\ toc' = Append(toc, TocItem(event.tag.level, title, made.anchor,
                                                     current_line))
                       /\ toc_at' = Append(toc_at, idx)
                       /\ heading_count' = made.heading_count
                  ELSE UNCHANGED <<toc, toc_at, heading_count>>
               /\ current_line' = line_after(event, current_line)
               /\ line_map' = IF IsBreak(event) THEN Append(line_map, current_pos)
                              ELSE line_map
               /\ current_pos' = IF IsText(event) THEN current_pos + str_len(event.text)
                                 ELSE current_pos
    /\ UNCHANGED <<markdown, events, proc_i, processed_events, html_output,
                   word_count, reading_time, result, calls, first, outside_parser>>

\* the for loop has ended: process_events(events) is entered
ProcessEvents ==
    /\ pc = "scan"
    /\ idx > Len(events)
    /\ pc' = "process"
    /\ proc_i' = 1
    /\ processed_events' = <<>>
    /\ UNCHANGED <<markdown, events, idx, toc, toc_at, line_map, current_line,
                   current_pos, heading_count, html_output, word_count, reading_time,
                   result, calls, first, outside_parser>>

\* one iteration of the while loop of process_events
ProcessEvent ==
    /\ pc = "process"
    /\ proc_i <= Len(events)
    /\ LET step == process_step(events, proc_i)
       IN IF step.panic
          THEN /\ pc' = "panicked"
               /\ UNCHANGED <<proc_i, processed_events>>
          ELSE /\ pc' = "process"
               /\ proc_i' = step.i
               /\ processed_events' = Append(processed_events, step.push)
    /\ UNCHANGED <<markdown, events, idx, toc, toc_at, line_map, current_line,
                   current_pos, heading_count, html_output, word_count, reading_time,
                   result, calls, first, outside_parser>>

\* process_events has returned: html::push_html, the reading statistics and the
\* value returned
Finish ==
    /\ pc = "process"
    /\ proc_i > Len(events)
    /\ pc' = "done"
    /\ html_output' = push_html(processed_events)
    /\ word_count' = count_words(markdown)
    /\ reading_time' = reading_time_of(count_words(markdown))
    /\ result' = ParsedDocument(push_html(processed_events), line_map, toc,
                                count_words(markdown),
                                reading_time_of(count_words(markdown)))
    /\ UNCHANGED <<markdown, events, idx, toc, toc_at, line_map, current_line,
                   current_pos, heading_count, proc_i, processed_events,
                   calls, first, outside_parser>>

\* history: keep the call that has just returned
Remember ==
    /\ pc = "done"
    /\ ~first.set
    /\ first' = [set |-> TRUE, markdown |-> markdown, events |-> events, result |-> result]
    /\ UNCHANGED <<pc, markdown, events, idx, toc, toc_at, line_map, current_line,
                   current_pos, heading_count, proc_i, processed_events, html_output,
                   word_count, reading_time, result, calls, outside_parser>>

\* one parse call on any document
Next ==
    \/ \E doc \in Documents : pc = "idle" /\ Call(doc)
    \/ ScanEvent
    \/ ProcessEvents
    \/ ProcessEvent
    \/ Finish

Spec == Init /\ [][Next]_vars

\* several parse calls one after the other on one MarkdownParser
NextRepeat ==
    \/ \E doc \in RepeatDocuments : calls < MaxCalls /\ Call(doc)
    \/ ScanEvent
    \/ ProcessEvents
    \/ ProcessEvent
    \/ Finish
    \/ Remember

SpecRepeat == Init /\ [][NextRepeat]_vars

(***************************************************************************)
(* FileService::read_file and FileService::write_file                      *)
(***************************************************************************)
\* a path is its file stem and its extension: "n.md" is ("n", "md")
Extensions == {"md", "txt", "tmp"}
Paths == {[stem |-> "n", extension |-> e] : e \in Extensions}

ContentChars == {"a", "b"}
RECURSIVE StringsUpTo(_, _)
StringsUpTo(chars, n) ==
    IF n = 0 THEN {<<>>}
    ELSE LET shorter == StringsUpTo(chars, n - 1)
         IN shorter \cup {Append(s, c) : s \in shorter, c \in chars}
Contents == StringsUpTo(ContentChars, MaxContentLen)

File(s) == [exists |-> TRUE, content |-> s]

\* the disks write_file is called on: a path holds nothing or an earlier content
Disks == [Paths -> {NoFile, File(<<"b">>)}]

\* Path::with_extension: the extension of the file name is replaced
with_extension(p, extension) == [p EXCEPT !.extension = extension]

\* read_file: Err for a path that does not exist, else Ok(read_to_string(path))
read_file(disk, p) ==
    IF ~disk[p].exists THEN [status |-> "Err", content |-> <<>>]
    ELSE [status |-> "Ok", content |-> disk[p].content]

FileInit ==
    /\ files \in Disks
    /\ write_pc = "idle"
    /\ path = NoPath
    /\ content = <<>>
    /\ temp_path = NoPath
    /\ written = 0
    /\ previous = NoFile
    /\ read_path = NoPath
    /\ read_result = NoRead

\* the entry of write_file: create_dir_all(parent), then temp_path is computed;
\* create_dir_all may fail, and write_file returns its error
write_file(p, s, dir_ok) ==
    /\ write_pc = "idle"
    /\ path' = p
    /\ content' = s
    /\ previous' = files[p]
    /\ temp_path' = IF dir_ok THEN with_extension(p, "tmp") ELSE NoPath
    /\ write_pc' = IF dir_ok THEN "write" ELSE "err"
    /\ written' = 0
    /\ read_path' = NoPath
    /\ read_result' = NoRead
    /\ UNCHANGED <<files, parser_vars, writers_vars, registry_vars, export_vars, watch_vars, math_vars, anchor_vars>>

\* tokio::fs::write(&temp_path, content) opens the file: it is created, or
\* truncated when it exists; the open may fail
WriteOpen(ok) ==
    /\ write_pc = "write"
    /\ IF ok
       THEN /\ files' = [files EXCEPT ![temp_path] = File(<<>>)]
            /\ write_pc' = "writing"
       ELSE /\ write_pc' = "err"
            /\ UNCHANGED files
    /\ UNCHANGED <<path, content, temp_path, written, previous, read_path, read_result,
                   parser_vars, writers_vars, registry_vars, export_vars, watch_vars, math_vars, anchor_vars>>

\* tokio::fs::write writes the content, here a character at a time; a write may
\* fail and leave what was written
WriteChunk(ok) ==
    /\ write_pc = "writing"
    /\ written < Len(content)
    /\ IF ok
       THEN /\ files' = [files EXCEPT ![temp_path] =
                            File(Append(files[temp_path].content, content[written + 1]))]
            /\ written' = written + 1
            /\ UNCHANGED write_pc
       ELSE /\ write_pc' = "err"
            /\ UNCHANGED <<files, written>>
    /\ UNCHANGED <<path, content, temp_path, previous, read_path, read_result,
                   parser_vars, writers_vars, registry_vars, export_vars, watch_vars, math_vars, anchor_vars>>

\* tokio::fs::write has returned Ok
WriteDone ==
    /\ write_pc = "writing"
    /\ written = Len(content)
    /\ write_pc' = "rename"
    /\ UNCHANGED <<files, path, content, temp_path, written, previous, read_path,
                   read_result, parser_vars, writers_vars, registry_vars, export_vars, watch_vars, math_vars, anchor_vars>>

\* tokio::fs::rename(&temp_path, path): path holds what temp_path held and
\* temp_path is gone (a rename of a file to itself changes nothing); then Ok(())
Rename(ok) ==
    /\ write_pc = "rename"
    /\ IF ok
       THEN /\ files' = IF temp_path = path THEN files
                        ELSE [files EXCEPT ![path] = files[temp_path],
                                           ![temp_path] = NoFile]
            /\ write_pc' = "ok"
       ELSE /\ write_pc' = "err"
            /\ UNCHANGED files
    /\ UNCHANGED <<path, content, temp_path, written, previous, read_path, read_result,
                   parser_vars, writers_vars, registry_vars, export_vars, watch_vars, math_vars, anchor_vars>>

\* a read_file call of another task, at any moment of the write_file call
ReadFile(p) ==
    /\ write_pc \notin {"idle"}
    /\ read_path' = p
    /\ read_result' = read_file(files, p)
    /\ UNCHANGED <<files, write_pc, path, content, temp_path, written, previous,
                   parser_vars, writers_vars, registry_vars, export_vars, watch_vars, math_vars, anchor_vars>>

\* one write_file call on any disk, and the read_file calls made meanwhile
NextFile ==
    \/ \E p \in Paths, s \in Contents, dir_ok \in BOOLEAN : write_file(p, s, dir_ok)
    \/ \E ok \in BOOLEAN : WriteOpen(ok)
    \/ \E ok \in BOOLEAN : WriteChunk(ok)
    \/ WriteDone
    \/ \E ok \in BOOLEAN : Rename(ok)
    \/ \E p \in Paths : ReadFile(p)

InitFile == ParserInit /\ RegistryAtRest /\ WritersAtRest /\ FileInit /\ ExportAtRest /\ WatchAtRest /\ MathAtRest /\ AnchorAtRest

SpecFile == InitFile /\ [][NextFile]_vars

(***************************************************************************)
(* Two FileService::write_file calls running concurrently (two save_file   *)
(* commands): each call is a sequence of file system operations, and the   *)
(* operations of the two calls interleave.  The disk itself never fails    *)
(* here, so that an error a call meets is the doing of the other call.     *)
(***************************************************************************)
Stems == {"n", "m"}
\* the paths the calls are made on, and those paths with their temporary files
TargetPaths == {[stem |-> s, extension |-> e] : s \in Stems, e \in {"md", "txt"}}
DirPaths == TargetPaths \cup {with_extension(p, "tmp") : p \in TargetPaths}

\* the byte of a hole, left by a write past the end of a file
Nul == "NUL"

\* write(2) of one character at an offset of a file's content
write_at(data, offset, c) ==
    IF offset < Len(data) THEN [data EXCEPT ![offset + 1] = c]
    ELSE data \o [k \in 1..(offset - Len(data)) |-> Nul] \o <<c>>

\* the content found at a path, NoFile when the path names no file
FileAt(p) == IF dir_entries[p] = 0 THEN NoFile ELSE File(file_data[dir_entries[p]])

Other(w) == CHOOSE v \in Writers : v # w

WritersInit ==
    /\ dir_entries = [p \in DirPaths |-> 0]
    /\ file_data = <<>>
    /\ writers = [w \in Writers |-> NoWriter]

\* the entry of a write_file call, on a path no other running call is made on:
\* the parent directory exists, temp_path is computed
WriterEntry(w, p, s) ==
    /\ writers[w].pc = "idle"
    /\ writers[Other(w)].path # p
    /\ writers' = [writers EXCEPT ![w] = [pc |-> "open", path |-> p, content |-> s,
                                          temp_path |-> with_extension(p, "tmp"),
                                          file |-> 0, offset |-> 0]]
    /\ UNCHANGED <<dir_entries, file_data, parser_vars, registry_vars, file_vars, export_vars, watch_vars,
                   math_vars, anchor_vars>>

\* tokio::fs::write(&temp_path, content) opens temp_path: the file is created
\* when the path names none, and truncated when it names one
WriterOpen(w) ==
    LET t == writers[w].temp_path
    IN /\ writers[w].pc = "open"
       /\ IF dir_entries[t] = 0
          THEN /\ file_data' = Append(file_data, <<>>)
               /\ dir_entries' = [dir_entries EXCEPT ![t] = Len(file_data) + 1]
               /\ writers' = [writers EXCEPT ![w].pc = "writing",
                                             ![w].file = Len(file_data) + 1]
          ELSE /\ file_data' = [file_data EXCEPT ![dir_entries[t]] = <<>>]
               /\ writers' = [writers EXCEPT ![w].pc = "writing",
                                             ![w].file = dir_entries[t]]
               /\ UNCHANGED dir_entries
       /\ UNCHANGED <<parser_vars, registry_vars, file_vars, export_vars, watch_vars, math_vars, anchor_vars>>

\* tokio::fs::write writes the content to the file it opened, here a character
\* at a time, each at the offset its own file handle has reached
WriterChunk(w) ==
    LET f == writers[w].file
        o == writers[w].offset
    IN /\ writers[w].pc = "writing"
       /\ o < Len(writers[w].content)
       /\ file_data' = [file_data EXCEPT ![f] = write_at(file_data[f], o, writers[w].content[o + 1])]
       /\ writers' = [writers EXCEPT ![w].offset = o + 1]
       /\ UNCHANGED <<dir_entries, parser_vars, registry_vars, file_vars, export_vars, watch_vars, math_vars,
                      anchor_vars>>

\* tokio::fs::write has written everything: the file is closed, Ok
WriterClose(w) ==
    /\ writers[w].pc = "writing"
    /\ writers[w].offset = Len(writers[w].content)
    /\ writers' = [writers EXCEPT ![w].pc = "rename"]
    /\ UNCHANGED <<dir_entries, file_data, parser_vars, registry_vars, file_vars, export_vars, watch_vars,
                   math_vars, anchor_vars>>

\* tokio::fs::rename(&temp_path, path): an error when temp_path names no file
\* (write_file returns it), else path names the file and temp_path none: Ok(())
WriterRename(w) ==
    LET t == writers[w].temp_path
    IN /\ writers[w].pc = "rename"
       /\ IF dir_entries[t] = 0
          THEN /\ writers' = [writers EXCEPT ![w].pc = "err"]
               /\ UNCHANGED dir_entries
          ELSE /\ dir_entries' = [dir_entries EXCEPT ![writers[w].path] = dir_entries[t],
                                                     ![t] = 0]
               /\ writers' = [writers EXCEPT ![w].pc = "ok"]
       /\ UNCHANGED <<file_data, parser_vars, registry_vars, file_vars, export_vars, watch_vars, math_vars,
                      anchor_vars>>

NextWriters ==
    \/ \E w \in Writers, p \in TargetPaths, s \in Contents : WriterEntry(w, p, s)
    \/ \E w \in Writers : WriterOpen(w)
    \/ \E w \in Writers : WriterChunk(w)
    \/ \E w \in Writers : WriterClose(w)
    \/ \E w \in Writers : WriterRename(w)

InitWriters ==
    ParserInit /\ RegistryAtRest /\ FileAtRest /\ ExportAtRest /\ WatchAtRest /\ MathAtRest /\ AnchorAtRest
        /\ WritersInit

SpecWriters == InitWriters /\ [][NextWriters]_vars

(***************************************************************************)
(* The commands watch_file and unwatch_file, one after the other: the      *)
(* registry of FileService and the paths AppState tracks.                  *)
(***************************************************************************)
\* HashMap::insert and HashMap::remove
map_insert(map, key, value) == [k \in DOMAIN map \cup {key} |-> IF k = key THEN value ELSE map[k]]
map_remove(map, key) == [k \in DOMAIN map \ {key} |-> map[k]]

\* FileService::watch_file: notify::recommended_watcher may fail (created), and
\* then nothing is registered; else the watcher is inserted under the path,
\* taking the place of an earlier one, and watcher.watch fails when the path
\* cannot be watched (watchable), the error leaving by '?'
watch_file(registry, p, created, watchable) ==
    IF ~created THEN [result |-> "err", watchers |-> registry]
    ELSE [result |-> IF watchable THEN "ok" ELSE "err",
          watchers |-> map_insert(registry, p, [watching |-> watchable])]

\* FileService::unwatch_file: the watcher is removed, an error of
\* watcher.unwatch is logged only
unwatch_file(registry, p) == [result |-> "ok", watchers |-> map_remove(registry, p)]

RegistryInit == RegistryAtRest

\* the command watch_file: the path is tracked when FileService returned Ok
WatchFileCommand(p, created, watchable) ==
    LET r == watch_file(watchers, p, created, watchable)
    IN /\ command' = [name |-> "watch_file", path |-> p]
       /\ command_result' = r.result
       /\ watchers' = r.watchers
       /\ state_watchers' = IF r.result = "ok" THEN map_insert(state_watchers, p, TRUE)
                            ELSE state_watchers
       /\ UNCHANGED <<parser_vars, file_vars, export_vars, watch_vars, math_vars, anchor_vars,
                      writers_vars>>

\* the command unwatch_file: the path is no longer tracked
UnwatchFileCommand(p) ==
    LET r == unwatch_file(watchers, p)
    IN /\ command' = [name |-> "unwatch_file", path |-> p]
       /\ command_result' = r.result
       /\ watchers' = r.watchers
       /\ state_watchers' = IF r.result = "ok" THEN map_remove(state_watchers, p)
                            ELSE state_watchers
       /\ UNCHANGED <<parser_vars, file_vars, export_vars, watch_vars, math_vars, anchor_vars,
                      writers_vars>>

NextRegistry ==
    \/ \E p \in Paths, created \in BOOLEAN, watchable \in BOOLEAN :
           WatchFileCommand(p, created, watchable)
    \/ \E p \in Paths : UnwatchFileCommand(p)

InitRegistry ==
    ParserInit /\ FileAtRest /\ ExportAtRest /\ WatchAtRest /\ MathAtRest /\ AnchorAtRest
        /\ WritersAtRest /\ RegistryInit

SpecRegistry == InitRegistry /\ [][NextRegistry]_vars

(***************************************************************************)
(* ExportService::generate_toc_from_html                                   *)
(***************************************************************************)
\* str::find: the byte offset of the first occurrence of pat in s
find(s, pat) ==
    LET at(i) == SubSeq(s, i, i + Len(pat) - 1) = pat
        hits == {i \in 1..(Len(s) - Len(pat) + 1) : at(i)}
    IN IF hits = {} THEN [found |-> FALSE, offset |-> 0]
       ELSE [found |-> TRUE,
             offset |-> byte_offset(s, CHOOSE i \in hits : \A j \in hits : i <= j)]

str_contains(s, pat) == find(s, pat).found
str_starts_with(s, pat) == SubSeq(s, 1, Len(pat)) = pat

\* str::trim_start: leading whitespace removed
RECURSIVE trim_start(_)
trim_start(s) == IF s # <<>> /\ is_whitespace(Head(s)) THEN trim_start(Tail(s)) ELSE s

\* str::lines: the lines of s without their "\n" or "\r\n"; a final empty line
\* is not a line
RECURSIVE lines(_)
lines(s) ==
    LET ends == {i \in DOMAIN s : s[i] = "\n"}
        strip(l) == IF ends_with(l, "\r") THEN SubSeq(l, 1, Len(l) - 1) ELSE l
    IN IF s = <<>> THEN <<>>
       ELSE IF ends = {} THEN <<s>>
       ELSE LET k == CHOOSE i \in ends : \A j \in ends : i <= j
            IN <<strip(SubSeq(s, 1, k - 1))>> \o lines(SubSeq(s, k + 1, Len(s)))

\* "  ".repeat(n)
RECURSIVE repeat(_, _)
repeat(s, n) == IF n = 0 THEN <<>> ELSE s \o repeat(s, n - 1)

\* str::replace(' ', "-")
replace_space(s) == [i \in 1..Len(s) |-> IF s[i] = " " THEN "-" ELSE s[i]]

str_to_lowercase(s) == [i \in 1..Len(s) |-> to_lowercase(s[i])]

Some(s) == [panic |-> FALSE, some |-> TRUE, item |-> s]
None == [panic |-> FALSE, some |-> FALSE, item |-> <<>>]
SlicePanic == [panic |-> TRUE, some |-> FALSE, item |-> <<>>]

\* the heading level of a line: the first of "<h1" .. "<h6" it contains, 0 for none
level_of(line) ==
    IF \E l \in 1..6 : str_contains(line, <<"<", "h">> \o Decimal(l))
    THEN CHOOSE l \in 1..6 : /\ str_contains(line, <<"<", "h">> \o Decimal(l))
                             /\ \A k \in 1..(l - 1) :
                                    ~str_contains(line, <<"<", "h">> \o Decimal(k))
    ELSE 0

extract_heading_from_line(line) ==
    IF str_starts_with(trim_start(line), <<"<", "h">>) /\ contains(line, ">")
    THEN LET start == find(line, <<">">>)
             end == find(line, <<"<", "/", "h">>)
             heading == byte_slice(line, start.offset + 1, end.offset)
             level == level_of(line)
         IN IF ~start.found \/ ~end.found THEN None
            ELSE IF heading.panic THEN SlicePanic
            ELSE IF level = 0 THEN None
            ELSE Some(repeat(<<" ", " ">>, level - 1) \o <<"<li><a href=\"#">>
                      \o replace_space(str_to_lowercase(heading.out)) \o <<"\">">>
                      \o heading.out \o <<"</a></li>">>)
    ELSE None

\* Vec<String>::join("\n")
RECURSIVE join(_)
join(items) ==
    IF items = <<>> THEN <<>>
    ELSE IF Len(items) = 1 THEN items[1]
    ELSE items[1] \o <<"\n">> \o join(Tail(items))

\* the format string, before and after its {}
TocOpen == "<div class=\"toc\">\n                <h2>Table of Contents</h2>\n                <ul>\n                    "
TocClose == "\n                </ul>\n            </div>"

generate_toc_from_html(h) ==
    LET ls == lines(h)
        found == [i \in DOMAIN ls |-> extract_heading_from_line(ls[i])]
        kept == {i \in DOMAIN ls : found[i].some}
        nth(k) == CHOOSE i \in kept : Cardinality({j \in kept : j < i}) = k - 1
        toc_items == [k \in 1..Cardinality(kept) |-> found[nth(k)].item]
    IN IF \E i \in DOMAIN ls : found[i].panic THEN [status |-> "Panic", out |-> <<>>]
       ELSE IF toc_items = <<>> THEN [status |-> "Ok", out |-> <<>>]
       ELSE [status |-> "Ok", out |-> <<TocOpen>> \o join(toc_items) \o <<TocClose>>]

\* the html the table of contents is made from: elements, each on the line of
\* the element before it or on a line of its own
HeadingElement(level, title) ==
    [html |-> <<"<", "h">> \o Decimal(level) \o <<">">> \o title
              \o <<"<", "/", "h">> \o Decimal(level) \o <<">">>,
     titles |-> {title}]
ParagraphElement == [html |-> <<"<", "p", ">", "x", "<", "/", "p", ">">>, titles |-> {}]
Elements == {HeadingElement(1, <<"C", "h", " ", "1">>), HeadingElement(2, <<"S", " ", "2">>),
             ParagraphElement}
Separators == {<<>>, <<"\n">>}

RECURSIVE HtmlInputs(_)
HtmlInputs(n) ==
    IF n = 1 THEN Elements
    ELSE LET shorter == HtmlInputs(n - 1)
         IN shorter \cup {[html |-> d.html \o sep \o e.html, titles |-> d.titles \cup e.titles] :
                             d \in shorter, sep \in Separators, e \in Elements}

\* the html of tests::test_toc_generation
TocTestHtml ==
    LET chapter == <<"C", "h", "a", "p", "t", "e", "r", " ", "1">>
        section(n) == <<"S", "e", "c", "t", "i", "o", "n", " ", "1", ".", n>>
    IN [html |-> HeadingElement(1, chapter).html \o HeadingElement(2, section("1")).html
                 \o HeadingElement(2, section("2")).html,
        titles |-> {chapter, section("1"), section("2")}]

ExportInit ==
    /\ \E d \in HtmlInputs(MaxElements) \cup {TocTestHtml} :
          export_html = d.html /\ headings = d.titles
    /\ export_pc = "called"
    /\ toc_html = NoToc

GenerateToc ==
    /\ export_pc = "called"
    /\ export_pc' = "returned"
    /\ toc_html' = generate_toc_from_html(export_html)
    /\ UNCHANGED <<export_html, headings, parser_vars, writers_vars, registry_vars, file_vars, watch_vars, math_vars, anchor_vars>>

NextExport == GenerateToc

InitExport == ParserInit /\ RegistryAtRest /\ WritersAtRest /\ FileAtRest /\ ExportInit /\ WatchAtRest /\ MathAtRest /\ AnchorAtRest

SpecExport == InitExport /\ [][NextExport]_vars

(***************************************************************************)
(* MarkdownParser::process_math, called on any text                        *)
(***************************************************************************)
MathChars == {"$", "x", ">", "&", "\"", "é"}

\* the text of tests::test_math_processing
MathTestText ==
    <<"$", "x", "^", "2", " ", "+", " ", "y", "^", "2", " ", "=", " ", "z", "^", "2", "$">>

\* a text with two spans
TwoSpansText == <<"a", " ", "$", "x", "$", " ", "a", "n", "d", " ", "$", "y", "$">>

MathTexts == StringsUpTo(MathChars, MaxTextLen) \cup {MathTestText, TwoSpansText}

MathInit ==
    /\ math_pc = "called"
    /\ math_text \in MathTexts
    /\ math_result = NoString

ProcessMath ==
    /\ math_pc = "called"
    /\ math_pc' = "returned"
    /\ math_result' = process_math(math_text)
    /\ UNCHANGED <<math_text, parser_vars, writers_vars, registry_vars, file_vars, export_vars, watch_vars, anchor_vars>>

NextMath == ProcessMath

InitMath ==
    ParserInit /\ RegistryAtRest /\ WritersAtRest /\ FileAtRest /\ ExportAtRest /\ WatchAtRest /\ MathInit /\ AnchorAtRest

SpecMath == InitMath /\ [][NextMath]_vars

(***************************************************************************)
(* MarkdownParser::create_anchor, called on any titles with one registry   *)
(***************************************************************************)
TitleChars == {"A", "É", " ", "1"}
Titles == StringsUpTo(TitleChars, MaxTitleLen)

\* a registry no call has been made on
AnchorInit ==
    /\ anchor_calls = 0
    /\ anchor_title = <<>>
    /\ anchor_registry = EmptyRegistry
    /\ anchor_result = <<>>
    /\ anchor_seen = [t \in {} |-> 0]

CreateAnchor(t) ==
    /\ anchor_calls < MaxAnchorCalls
    /\ anchor_calls' = anchor_calls + 1
    /\ anchor_title' = t
    /\ anchor_result' = create_anchor(t, anchor_registry).anchor
    /\ anchor_registry' = create_anchor(t, anchor_registry).heading_count
    /\ anchor_seen' = [u \in DOMAIN anchor_seen \cup {t} |->
                          (IF u \in DOMAIN anchor_seen THEN anchor_seen[u] ELSE 0)
                          + (IF u = t THEN 1 ELSE 0)]
    /\ UNCHANGED <<parser_vars, writers_vars, registry_vars, file_vars, export_vars, watch_vars, math_vars>>

NextAnchor == \E t \in Titles : CreateAnchor(t)

InitAnchor ==
    ParserInit /\ RegistryAtRest /\ WritersAtRest /\ FileAtRest /\ ExportAtRest /\ WatchAtRest /\ MathAtRest /\ AnchorInit

SpecAnchor == InitAnchor /\ [][NextAnchor]_vars

(***************************************************************************)
(* FileService::watch_file: the debounce loop of the spawned task.  Time   *)
(* is counted in milliseconds and passes only while the loop waits in      *)
(* rx.recv(); the other steps of the loop take no time.                    *)
(***************************************************************************)
DebounceDelay == 300
RecvTimeout == 50

WatchedPaths == {p \in Paths : p.extension \in {"md", "txt"}}

Min(a, b) == IF a <= b THEN a ELSE b

\* an event of notify: Ok(Event {paths}) or Err
OkEvent(p) == [ok |-> TRUE, paths |-> {p}]
ErrEvent == [ok |-> FALSE, paths |-> {}]

\* HashMap::insert for every path of the event
insert_all(map, ps, value) ==
    [p \in DOMAIN map \cup ps |-> IF p \in ps THEN value ELSE map[p]]

\* the task has been spawned and the watcher registered
WatchInit ==
    /\ clock = 0
    /\ loop_pc = "top"
    /\ now = 0
    /\ debounce_map = NoMap
    /\ rx = <<>>
    /\ closed = FALSE
    /\ notifications = 0
    /\ notified = NoMap
    /\ received = NoMap
    /\ burst_callbacks = [p \in WatchedPaths |-> 0]
    /\ callbacks = [p \in WatchedPaths |-> <<>>]

\* the closure given to notify::recommended_watcher: tx.send(res).  A path
\* whose latest event is less than debounce_delay old continues its burst.
Notify(event) ==
    /\ ~closed
    /\ notifications < MaxNotifications
    /\ notifications' = notifications + 1
    /\ rx' = Append(rx, event)
    /\ notified' = insert_all(notified, event.paths, clock)
    /\ burst_callbacks' =
           [p \in WatchedPaths |->
               IF p \in event.paths
                  /\ ~(p \in DOMAIN notified /\ clock - notified[p] < DebounceDelay)
               THEN 0 ELSE burst_callbacks[p]]
    /\ UNCHANGED <<clock, loop_pc, now, debounce_map, closed, received, callbacks,
                   parser_vars, writers_vars, registry_vars, file_vars, export_vars, math_vars, anchor_vars>>

\* the top of the loop: now is read, and every path whose entry is at least
\* debounce_delay old is removed and reported by a callback
LoopTop ==
    /\ loop_pc = "top"
    /\ now' = clock
    /\ LET ready_events == {p \in DOMAIN debounce_map :
                               clock - debounce_map[p] >= DebounceDelay}
       IN /\ debounce_map' = [p \in DOMAIN debounce_map \ ready_events |-> debounce_map[p]]
          /\ callbacks' = [p \in WatchedPaths |->
                              IF p \in ready_events
                              THEN Append(callbacks[p],
                                          [at |-> clock, received |-> received[p]])
                              ELSE callbacks[p]]
          /\ burst_callbacks' = [p \in WatchedPaths |->
                                    IF p \in ready_events THEN burst_callbacks[p] + 1
                                    ELSE burst_callbacks[p]]
    /\ loop_pc' = "recv"
    /\ UNCHANGED <<clock, rx, closed, notifications, notified, received,
                   parser_vars, writers_vars, registry_vars, file_vars, export_vars, math_vars, anchor_vars>>

\* rx.recv() returns an event: its paths are entered with now, the time read
\* at the top of the loop; an Err event is dropped
RecvEvent ==
    /\ loop_pc = "recv"
    /\ rx # <<>>
    /\ LET event == Head(rx)
       IN /\ debounce_map' = IF event.ok THEN insert_all(debounce_map, event.paths, now)
                             ELSE debounce_map
          /\ received' = insert_all(received, event.paths, clock)
    /\ rx' = Tail(rx)
    /\ loop_pc' = "top"
    /\ UNCHANGED <<clock, now, closed, notifications, notified, burst_callbacks, callbacks,
                   parser_vars, writers_vars, registry_vars, file_vars, export_vars, math_vars, anchor_vars>>

\* the timeout of 50 ms has elapsed with no event: continue
RecvTimedOut ==
    /\ loop_pc = "recv"
    /\ rx = <<>>
    /\ ~closed
    /\ clock = now + RecvTimeout
    /\ loop_pc' = "top"
    /\ UNCHANGED <<clock, now, debounce_map, rx, closed, notifications, notified, received,
                   burst_callbacks, callbacks, parser_vars, writers_vars, registry_vars, file_vars, export_vars, math_vars, anchor_vars>>

\* rx.recv() returns None, the channel is closed and empty: break
RecvClosed ==
    /\ loop_pc = "recv"
    /\ rx = <<>>
    /\ closed
    /\ loop_pc' = "stopped"
    /\ UNCHANGED <<clock, now, debounce_map, rx, closed, notifications, notified, received,
                   burst_callbacks, callbacks, parser_vars, writers_vars, registry_vars, file_vars, export_vars, math_vars, anchor_vars>>

\* time passes while the loop waits for an event, up to the timeout
Tick ==
    /\ loop_pc = "recv"
    /\ rx = <<>>
    /\ ~closed
    /\ clock < now + RecvTimeout
    /\ clock < MaxClock
    /\ clock' = Min(clock + TickMillis, now + RecvTimeout)
    /\ UNCHANGED <<loop_pc, now, debounce_map, rx, closed, notifications, notified,
                   received, burst_callbacks, callbacks, parser_vars, writers_vars, registry_vars, file_vars,
                   export_vars, math_vars, anchor_vars>>

\* unwatch_file removes the watcher: it is dropped, and the sender with it
DropWatcher ==
    /\ ~closed
    /\ closed' = TRUE
    /\ UNCHANGED <<clock, loop_pc, now, debounce_map, rx, notifications, notified,
                   received, burst_callbacks, callbacks, parser_vars, writers_vars, registry_vars, file_vars,
                   export_vars, math_vars, anchor_vars>>

NextWatch ==
    \/ \E p \in WatchedPaths : Notify(OkEvent(p))
    \/ Notify(ErrEvent)
    \/ LoopTop
    \/ RecvEvent
    \/ RecvTimedOut
    \/ RecvClosed
    \/ Tick
    \/ DropWatcher

InitWatch == ParserInit /\ RegistryAtRest /\ WritersAtRest /\ FileAtRest /\ ExportAtRest /\ WatchInit /\ MathAtRest /\ AnchorAtRest

SpecWatch == InitWatch /\ [][NextWatch]_vars

(***************************************************************************)
(* Properties.                                                             *)
(***************************************************************************)
Returned == pc = "done" /\ result.status = "Ok"

Anchors(t) == [k \in DOMAIN t |-> t[k].anchor]

\* the k-th smallest element of a finite set of numbers
Nth(S, k) == CHOOSE p \in S : Cardinality({q \in S : q < p}) = k - 1
Sorted(S) == [k \in 1..Cardinality(S) |-> Nth(S, k)]

\* the heading start events immediately followed by a text event, in order
TitledHeadings(evs) ==
    Sorted({i \in DOMAIN evs : IsHeadingStart(evs[i]) /\ i + 1 <= Len(evs)
                               /\ IsText(evs[i + 1])})

\* the ids of the heading start tags of an html text, in order
HeadingIds(html) ==
    LET opens == Sorted({p \in DOMAIN html : html[p] = " id=\""})
        close(p) == Nth({q \in DOMAIN html : q > p /\ html[q] = "\">"}, 1)
    IN [k \in DOMAIN opens |-> SubSeq(html, opens[k] + 1, close(opens[k]) - 1)]

\* C1: the anchors of the toc returned by one parse call are pairwise distinct.
C1_AnchorsDistinct ==
    Returned =>
        \A i, j \in DOMAIN result.toc :
            i # j => result.toc[i].anchor # result.toc[j].anchor

\* C2: the ids injected into the heading start tags of the html are, in order,
\* the anchors of the toc entries.
C2_HtmlIdsAreTocAnchors ==
    Returned => HeadingIds(result.html) = Anchors(result.toc)

\* C3: when exactly two headings of the document have title T, their toc entries
\* have the anchors base and base-2, in that order, base the normalized form of T.
C3_TwiceTitledAnchors ==
    Returned =>
        \A i, j \in Range(TitledHeadings(events)) :
            LET T == events[i + 1].text
                same == {h \in Range(TitledHeadings(events)) : events[h + 1].text = T}
            IN (i < j /\ same = {i, j}) =>
                   \E a, b \in DOMAIN result.toc :
                       /\ toc_at[a] = i
                       /\ toc_at[b] = j
                       /\ result.toc[a].anchor = base_anchor(T)
                       /\ result.toc[b].anchor = base_anchor(T) \o <<"-", "2">>

\* C4: the toc has one entry per heading start event immediately followed by a
\* text event, in order, with the level of that heading and the text that
\* follows that heading as title.
C4_TocMirrorsHeadings ==
    Returned =>
        LET hs == TitledHeadings(events)
        IN /\ Len(result.toc) = Len(hs)
           /\ \A k \in DOMAIN hs :
                  /\ result.toc[k].level = events[hs[k]].tag.level
                  /\ result.toc[k].title = events[hs[k] + 1].text

\* C5 as stated: reading_time is max(1, round(word_count / 200)).
C5_ReadingTimeRounded ==
    Returned =>
        result.reading_time =
            Max(1, (2 * result.word_count + WordsPerMinute) \div (2 * WordsPerMinute))

\* C5, amended: reading_time is max(1, floor(word_count / 200)): it is at least 1,
\* it is 1 below 400 words (so for the empty document), and from 200 words on
\* 200 * reading_time <= word_count < 200 * (reading_time + 1).
C5_ReadingTimeFloor ==
    Returned =>
        LET wc == result.word_count
            rt == result.reading_time
        IN /\ rt >= 1
           /\ wc = count_words(markdown)
           /\ (wc < 2 * WordsPerMinute => rt = 1)
           /\ (wc >= WordsPerMinute =>
                  WordsPerMinute * rt <= wc /\ wc < WordsPerMinute * (rt + 1))

\* C5 witness: a call has returned for 300 words, where rounding and integer
\* division differ.
C5_Witness ==
    Returned /\ result.word_count = 300 /\ result.reading_time = 1

\* C6: parsing a document again, after any other parse calls, returns a
\* ParsedDocument equal to the one its earlier parse returned.
C6_ParseTwiceEqual ==
    (first.set /\ Returned /\ markdown = first.markdown /\ events = first.events)
        => result = first.result

\* C6 witness: the last of several calls has parsed the kept document again, a
\* document with a heading.
C6_Witness ==
    /\ first.set
    /\ Returned
    /\ calls = MaxCalls
    /\ markdown = first.markdown
    /\ events = first.events
    /\ Len(result.toc) >= 1

\* C7: parse never aborts and never returns an error: no step of a call aborts,
\* the positions of both loops stay within the events and every step of a loop
\* moves its position on (so the call reaches its end), and the value returned
\* is Ok.
C7_ParseTotal ==
    /\ [](/\ pc # "panicked"
          /\ idx <= Len(events) + 1
          /\ proc_i <= Len(events) + 1
          /\ (pc = "done" => result.status = "Ok"))
    /\ [][/\ (pc = "scan" /\ pc' = "scan" => idx' > idx)
          /\ (pc = "process" /\ pc' = "process" => proc_i' > proc_i)
          /\ (pc = "process" /\ pc' # "process" => pc' = "done")]_vars

\* C7 witness: a call has returned for a heading without text, a code block
\* without text and a lone "$".
C7_Witness ==
    /\ Returned
    /\ \E i \in DOMAIN events :
           IsHeadingStart(events[i]) /\ i + 1 <= Len(events) /\ ~IsText(events[i + 1])
    /\ \E i \in DOMAIN events :
           IsFencedCodeStart(events[i]) /\ i + 1 <= Len(events) /\ ~IsText(events[i + 1])
    /\ \E i \in DOMAIN events : IsText(events[i]) /\ events[i].text = <<"$">>

\* the maximal runs of non-whitespace characters of a text
MaximalRuns(s) ==
    UNION {{<<a, b>> : b \in {b \in a..Len(s) :
                                 /\ (b = Len(s) \/ is_whitespace(s[b + 1]))
                                 /\ \A k \in a..b : ~is_whitespace(s[k])}}
           : a \in {a \in DOMAIN s : a = 1 \/ is_whitespace(s[a - 1])}}

C9_HelloWorldSixWords ==
    (Returned /\ markdown = HelloWorldDocument.markdown) => result.word_count = 6

\* C10: the toc is in document order; the lines of its entries are >= 1 and
\* non-decreasing; each is 1 plus the number of SoftBreak/HardBreak events
\* before the heading start event of the entry.
C10_TocLines ==
    /\ Len(toc_at) = Len(toc)
    /\ \A k \in DOMAIN toc :
           /\ toc[k].line >= 1
           /\ toc[k].line = 1 + Cardinality({j \in 1..(toc_at[k] - 1) : IsBreak(events[j])})
           /\ k > 1 => (toc_at[k - 1] < toc_at[k] /\ toc[k - 1].line <= toc[k].line)
    /\ (Returned => result.toc = toc)

\* C10 witness: a call has returned a toc with an entry on line 1 followed by
\* an entry on line 3.
C10_Witness ==
    /\ Returned
    /\ \E k \in DOMAIN result.toc :
           k > 1 /\ result.toc[k - 1].line = 1 /\ result.toc[k].line = 3

(***************************************************************************)
(* Properties of the file service.                                         *)
(***************************************************************************)
Ok(s) == [status |-> "Ok", content |-> s]

\* what read_file returned for a path that held f
ReadOf(f) == IF f.exists THEN Ok(f.content) ELSE [status |-> "Err", content |-> <<>>]

\* C11: after write_file(path, content) has returned Ok, read_file(path) returns
\* exactly content; and at no step of the call does path hold a partially
\* written content: a read_file(path) made during the call returned the
\* previous content or the complete new content.
C11_WriteThenReadAtomic ==
    /\ write_pc = "ok" => read_file(files, path) = Ok(content)
    /\ write_pc # "idle" /\ read_path = path =>
           read_result \in {ReadOf(previous), Ok(content)}

(***************************************************************************)
(* Properties of the table of contents of the export.                      *)
(***************************************************************************)
\* C12: for every html with at least one heading element, generate_toc_from_html
\* returns a 'Table of Contents' block that holds the title of every heading of
\* the html, also when several heading elements are on one line.
C12_TocHoldsEveryTitle ==
    export_pc = "returned" /\ headings # {} =>
        /\ toc_html.status = "Ok"
        /\ contains(toc_html.out, TocOpen)
        /\ \A title \in headings : str_contains(toc_html.out, title)

(***************************************************************************)
(* Properties of the debounce loop.                                        *)
(***************************************************************************)
\* C13: a burst of notifications for one path whose gaps are shorter than
\* debounce_delay gets no more than its one callback, and no callback for a
\* path is made earlier than debounce_delay after the latest notification the
\* loop had received for that path.
C13_DebouncedCallbacks ==
    \A p \in DOMAIN callbacks :
        /\ burst_callbacks[p] <= 1
        /\ \A k \in DOMAIN callbacks[p] :
               callbacks[p][k].at - callbacks[p][k].received >= DebounceDelay

(***************************************************************************)
(* Properties of process_events.                                           *)
(***************************************************************************)
NextIsText(evs, j) == j + 1 <= Len(evs) /\ IsText(evs[j + 1])

\* the raw-HTML event '<hL id="anchor">' for the heading start at position j
HeadingHtml(evs, j) ==
    Html(<<"<h">> \o Decimal(evs[j].tag.level) \o <<" id=\"">>
         \o create_anchor(evs[j + 1].text, EmptyRegistry).anchor \o <<"\">">>)

\* C14: in process_events, a heading start of level L that a text event follows
\* is replaced by exactly one raw-HTML event '<hL id="anchor">', L the number
\* 1..6, and the text event is not consumed; a heading start that no text
\* event follows is passed through unmodified and makes no toc entry.
C14_HeadingStartReplaced ==
    /\ [](\A k \in DOMAIN toc_at : NextIsText(events, toc_at[k]))
    /\ [][pc = "process" /\ proc_i <= Len(events) /\ IsHeadingStart(events[proc_i]) =>
              /\ proc_i' = proc_i + 1
              /\ processed_events' =
                     Append(processed_events,
                            IF NextIsText(events, proc_i) THEN HeadingHtml(events, proc_i)
                            ELSE events[proc_i])]_vars

\* the three-event pattern at position j: a fenced code block start, one text
\* event, the code block end
CodePattern(evs, j) ==
    /\ IsFencedCodeStart(evs[j])
    /\ j + 2 <= Len(evs)
    /\ IsText(evs[j + 1])
    /\ IsCodeBlockEnd(evs[j + 2])

Count(evs, Test(_)) == Cardinality({j \in DOMAIN evs : Test(evs[j])})

\* C15: in process_events, a code block start followed by one text event and
\* the code block end is replaced by exactly one raw-HTML event with the
\* highlighter's output, all three consumed; a code block start of any other
\* block is passed through as it is, and the output never holds a code block end
\* whose start was removed.
C15_CodeBlockReplacedWhole ==
    /\ [](Count(processed_events, IsCodeBlockEnd) <= Count(processed_events, IsFencedCodeStart))
    /\ [][pc = "process" /\ proc_i <= Len(events) /\ IsFencedCodeStart(events[proc_i]) =>
              IF CodePattern(events, proc_i)
              THEN /\ proc_i' = proc_i + 3
                   /\ processed_events' =
                          Append(processed_events,
                                 Html(highlight_code(events[proc_i + 1].text,
                                                     events[proc_i].tag.lang)))
              ELSE /\ proc_i' = proc_i + 1
                   /\ processed_events' = Append(processed_events, events[proc_i])]_vars

(***************************************************************************)
(* Properties of process_math.                                             *)
(***************************************************************************)
TextSpecials == {"&", "<", ">"}
AttributeSpecials == {"&", "<", ">", "\""}

\* out is s with every character of `escaped` written as its entity, once
IsEscapeOf(out, s, escaped) ==
    LET before(c, i) == Cardinality({j \in 1..(i - 1) : s[j] = c /\ c \in escaped})
        start(i) == i + 4 * before("&", i) + 3 * before("<", i) + 3 * before(">", i)
                      + 5 * before("\"", i)
    IN IF \A i \in DOMAIN s : s[i] \notin escaped THEN out = s
       ELSE /\ Len(out) = start(Len(s) + 1) - 1
            /\ \A i \in DOMAIN s :
                   IF s[i] \in escaped
                   THEN SubSeq(out, start(i), start(i + 1) - 1) = EntityOf(s[i])
                   ELSE out[start(i)] = s[i]

\* out is s HTML-escaped once, as a text or as an attribute value
EscapedOnce(out, s) ==
    IsEscapeOf(out, s, TextSpecials) \/ IsEscapeOf(out, s, AttributeSpecials)

HoldsEscaped(out, s) ==
    \E a \in 1..(Len(out) + 1), b \in 0..Len(out) : EscapedOnce(SubSeq(out, a, b), s)

SpanOpen == "<span class=\"katex-inline\" data-math=\""

\* a text that starts with '$', ends with '$' and is longer than 2
IsMathRun(s) == Len(s) > 2 /\ s[1] = "$" /\ s[Len(s)] = "$"

\* C16: process_math treats a text as a math expression if and only if it
\* starts with '$', ends with '$' and is longer than 2; the output then holds
\* the 'katex-inline' wrapper and the (escaped) inner expression, the delimiters
\* stripped; every other text is returned HTML-escaped, without a wrapper and
\* as one run.
C16_MathIffDelimited ==
    math_pc = "returned" =>
        /\ ~math_result.panic
        /\ IF IsMathRun(math_text)
           THEN /\ contains(math_result.out, SpanOpen)
                /\ HoldsEscaped(math_result.out, SubSeq(math_text, 2, Len(math_text) - 1))
           ELSE /\ ~contains(math_result.out, SpanOpen)
                /\ EscapedOnce(math_result.out, math_text)

C16_Witness ==
    /\ math_pc = "returned"
    /\ math_text = MathTestText
    /\ contains(math_result.out, SpanOpen)

\* the value of the data-math attribute: what process_math wrote between the
\* opening of the attribute and its closing quote
DataMath(out) ==
    LET closing == {k \in DOMAIN out : out[k] = "\">"}
    IN SubSeq(out, 2, (CHOOSE k \in closing : \A j \in closing : k <= j) - 1)

\* C17: the inner content of a math expression is escaped for an attribute
\* value in data-math: no '&', '<', '>' or '"' of the expression is there
\* unescaped.
C17_DataMathEscaped ==
    math_pc = "returned" /\ IsMathRun(math_text) =>
        IsEscapeOf(DataMath(math_result.out), SubSeq(math_text, 2, Len(math_text) - 1),
                   AttributeSpecials)

(***************************************************************************)
(* Properties of the escaping of text on its way to the html.              *)
(***************************************************************************)
\* what lies between the last closing token "\">" of a raw-HTML event and its
\* final token: the visible text of a math span, the code of a code block
AfterOpening(out) ==
    LET closing == {k \in DOMAIN out : out[k] = "\">"}
    IN SubSeq(out, (CHOOSE k \in closing : \A j \in closing : k >= j) + 1, Len(out) - 1)

\* the html of a text run: the run escaped once, or the math span with the
\* expression escaped once in its attribute and the run escaped once inside
TextRunHtml(out, s) ==
    \/ EscapedOnce(out, s)
    \/ /\ IsMathRun(s)
       /\ out[1] = SpanOpen
       /\ out[Len(out)] = "</span>"
       /\ EscapedOnce(DataMath(out), SubSeq(s, 2, Len(s) - 1))
       /\ EscapedOnce(AfterOpening(out), s)

Bytes(s) == Len(s) + Cardinality({i \in DOMAIN s : s[i] \in {"É", "é"}})

\* the sum of the byte lengths of the text events among the first n events
RECURSIVE TextBytes(_, _)
TextBytes(evs, n) ==
    IF n = 0 THEN 0
    ELSE TextBytes(evs, n - 1) + (IF IsText(evs[n]) THEN Bytes(evs[n].text) ELSE 0)

\* C19: line_map has exactly one entry per SoftBreak/HardBreak event, in
\* order; its k-th entry is the sum of the byte lengths of the text events
\* before the k-th break; so it is non-decreasing, and its length is the final
\* line counter minus 1.
C19_LineMapOffsets ==
    Returned =>
        LET breaks == Sorted({j \in DOMAIN events : IsBreak(events[j])})
        IN /\ Len(result.line_map) = Len(breaks)
           /\ \A k \in DOMAIN breaks :
                  result.line_map[k] = TextBytes(events, breaks[k] - 1)
           /\ \A k \in 2..Len(result.line_map) :
                  result.line_map[k - 1] <= result.line_map[k]
           /\ Len(result.line_map) = current_line - 1

\* C19 witness: a call has returned a line map for a heading and a paragraph
\* with two breaks, a text with a two-byte character between the breaks.
C19_Witness ==
    /\ Returned
    /\ result.line_map = <<2, 7>>
    /\ current_line = 3

(***************************************************************************)
(* Properties of create_anchor.                                            *)
(***************************************************************************)
AnchorChars == Range(LowerCase) \cup Range(DigitChars) \cup {"-"}

\* the lower-cased title with every character that is not ASCII alphanumeric
\* mapped to '-', the leading and trailing '-' stripped
AsciiBase(t) ==
    LET mapped == [i \in 1..Len(t) |->
                      LET c == to_lowercase(t[i])
                      IN IF c \in Range(LowerCase) \cup Range(DigitChars) THEN c ELSE "-"]
        kept == {i \in DOMAIN mapped : mapped[i] # "-"}
    IN IF kept = {} THEN <<>>
       ELSE SubSeq(mapped, CHOOSE i \in kept : \A j \in kept : i <= j,
                           CHOOSE i \in kept : \A j \in kept : i >= j)

\* C20: the anchor base create_anchor computes for a title, the key it counts
\* in the registry, is the lower-cased title with every character that is not
\* ASCII alphanumeric mapped to '-' and the leading and trailing '-' stripped;
\* every anchor consists only of a-z, 0-9 and '-'.
C20_AsciiAnchors ==
    anchor_calls > 0 =>
        /\ AsciiBase(anchor_title) \in DOMAIN anchor_registry
        /\ Range(anchor_result) \subseteq AnchorChars

\* the number of calls made so far with a title of base b
CallsOfBase(b) ==
    Cardinality({tk \in (DOMAIN anchor_seen) \X (1..anchor_calls) :
                    base_anchor(tk[1]) = b /\ anchor_seen[tk[1]] >= tk[2]})

\* C21: on one registry, the first create_anchor call whose title has the base
\* b returns b and records the count 1, the N-th such call (N >= 2) returns
\* 'b-N' and records N, for the empty base too ('-2', '-3'); the counts of the
\* other bases are those their own calls left.
C21_RegistryCounts ==
    anchor_calls > 0 =>
        LET b == base_anchor(anchor_title)
            N == CallsOfBase(b)
        IN /\ N >= 1
           /\ anchor_result = IF N = 1 THEN b ELSE b \o <<"-">> \o Decimal(N)
           /\ DOMAIN anchor_registry = {base_anchor(t) : t \in DOMAIN anchor_seen}
           /\ \A c \in DOMAIN anchor_registry : anchor_registry[c] = CallsOfBase(c)

\* C21 witness: the third call with a title of the empty base has returned '-3'.
C21_Witness ==
    /\ anchor_calls = 3
    /\ base_anchor(anchor_title) = <<>>
    /\ anchor_result = <<"-", "3">>
    /\ anchor_registry[<<>>] = 3

\* both write_file calls have returned
BothReturned == \A w \in Writers : writers[w].pc \in {"ok", "err"}

\* C22: two write_file calls on two different paths, running concurrently, do
\* not interfere: once both have returned, none has failed (the disk does not
\* fail by itself) and each has left its own content at its own path.
C22_ConcurrentWritesApart ==
    BothReturned =>
        \A w \in Writers :
            /\ writers[w].pc = "ok"
            /\ FileAt(writers[w].path) = File(writers[w].content)

\* C23: every notification the debounce task has received is followed by a
\* callback for its path, also when the watcher is removed and the channel
\* closes while the path is pending: the task does not end with a path still
\* waiting in the debounce map, since nothing makes a callback after its end.
C23_NoPendingAtEnd ==
    loop_pc = "stopped" => DOMAIN debounce_map = {}

\* C24: a watch_file call of FileService that returns an error leaves the
\* registry of FileService as it was, and so, after any sequence of watch_file
\* and unwatch_file commands, the paths tracked in AppState.watchers are the
\* paths that have a watcher in FileService.watchers.
C24_RegistriesAgree ==
    /\ [](DOMAIN state_watchers = DOMAIN watchers)
    /\ [][command'.name = "watch_file" /\ command_result' = "err" => watchers' = watchers]_vars

====
